---- MODULE Spec2Model ----
(***************************************************************************)
(* A model of wandb-addons:                                                *)
(*   - keras/metrics_logger.py : WandbMetricsLogger (the counters, the     *)
(*     step-axis registration, the records handed to wandb.log, and the    *)
(*     learning-rate resolution _get_lr);                                  *)
(*   - ultralytics/bbox_utils.py : get_mean_confidence_map,                *)
(*     plot_predictions, plot_validation_results,                          *)
(*     get_ground_truth_annotations and                                    *)
(*     scale_bounding_box_to_original_image_shape.                         *)
(*                                                                         *)
(* Conventions.  A Python Optional value is a sequence of length at most   *)
(* one: <<>> is None and <<v>> is the value v.  A dict is a function; the  *)
(* key f"epoch/{k}" is the pair <<"epoch", k>>.  Floats are modelled by    *)
(* exact rationals <<numerator, denominator>>.                             *)
(***************************************************************************)
EXTENDS Integers, Sequences, FiniteSets, TLC

VARIABLES
    \* ---- keras/metrics_logger.py
    run,                 \* wandb.run is not None
    backend,             \* keras.backend.backend(), fixed at import
    phase,               \* "new" | "ready" | "failed" (the constructor raised)
    logging_batch_wise,  \* Optional(self.logging_batch_wise)
    log_freq,            \* Optional(self.log_freq)
    global_batch,        \* Optional(self.global_batch)
    global_step,         \* Optional(self.global_step)
    initial_global_step, \* the constructor's argument
    defined,             \* the wandb.define_metric calls, in order
    termerror_shown,     \* messages wandb.termerror(repeat=False) has printed
    sink_count,          \* number of wandb.log calls
    sink_batch_count,    \* number of wandb.log calls made by on_batch_end
    batch_calls,         \* number of on_batch_end calls made
    last_call,           \* what the latest callback call did
    n_calls,             \* number of callback calls made
    \* ---- ultralytics/bbox_utils.py
    box_args,            \* Optional(arguments of the box mapping)
    box_call,            \* Optional(position record built from box_args)
    det_args,            \* Optional(arguments of get_mean_confidence_map)
    det_call,            \* Optional(outcome of get_mean_confidence_map)
    pv                   \* the plot_validation_results call in progress

loggerVars == <<run, backend, phase, logging_batch_wise, log_freq, global_batch,
                global_step, initial_global_step, defined, termerror_shown,
                sink_count, sink_batch_count, batch_calls, last_call, n_calls>>

bboxVars == <<box_args, box_call, det_args, det_call, pv>>

vars == <<loggerVars, bboxVars>>

\* ---------------------------------------------------------------- bounds
MaxCalls == 2
MaxFreq == 2
MaxBatch == 3
MaxEpoch == 1
MaxInitialStep == 1
MaxDet == 2
MaxClassId == 2
MaxFrames == 2
MaxBatches == 2

\* ---------------------------------------------------------------- helpers
None == <<>>
Some(v) == <<v>>
Get(o) == o[1]

EmptyDict == <<>>
Put(d, k, v) == [x \in (DOMAIN d) \cup {k} |-> IF x = k THEN v ELSE d[x]]
Prefixed(prefix, d) ==
    [x \in {<<prefix, k>> : k \in DOMAIN d} |-> d[x[2]]]

\* ------------------------------------------------ inputs of the callbacks
Backends == {"tensorflow", "torch", "jax", "none"}

\* log_freq as passed to the constructor: a string or an int.
LogFreqArgs ==
    {[str |-> Some("epoch"), int |-> None], [str |-> Some("batch"), int |-> None]}
    \cup {[str |-> None, int |-> Some(n)] : n \in 1..MaxFreq}

\* The logs dictionaries the training loop passes (None, or a dict).
MetricDicts ==
    { EmptyDict,
      [k \in {"loss"} |-> 5],
      [k \in {"epoch", "learning_rate"} |-> IF k = "epoch" THEN 7 ELSE 9] }
LogsArgs == {None} \cup {Some(d) : d \in MetricDicts}

\* self.model.optimizer: no model attached, a keras Optimizer, or anything else
\* (None for a model that was not compiled).
OptimizerKinds == {"no_model", "keras", "other"}

\* optimizer.learning_rate: the shapes the attribute can take.
LrShapes == {"missing", "variable", "tf_eager", "tf_symbolic", "torch_cpu",
             "torch_cuda", "torch_grad", "jax_array", "py_float", "schedule"}
LrExists(s) == s # "missing"
\* lr.numpy().item() succeeds
NumpyItemOk(s) == s \in {"variable", "tf_eager", "torch_cpu"}
IsTfTensor(s) == s \in {"tf_eager", "tf_symbolic"}
IsTorchTensor(s) == s \in {"torch_cpu", "torch_cuda", "torch_grad"}
\* lr.to("cpu").numpy().item() succeeds
CpuNumpyItemOk(s) == s \in {"torch_cpu", "torch_cuda"}
\* float(np.array(lr).item()) succeeds
NpArrayItemOk(s) == s \in {"variable", "tf_eager", "torch_cpu", "jax_array", "py_float"}
\* the float the optimizer currently holds
LrValues == {3}

UnableMsg == "Unable to log learning rate."

\* ------------------------------------------------------------- _get_lr
LrFloat(v) == [res |-> "float", value |-> Some(v), termerror |-> FALSE]
LrSilentNone == [res |-> "None", value |-> None, termerror |-> FALSE]
LrWarnNone == [res |-> "None", value |-> None, termerror |-> TRUE]
LrRaise == [res |-> "raise", value |-> None, termerror |-> FALSE]

\* the except branch, lines 109-128
GetLrHandler(bk, opt, lr, v) ==
    CASE bk = "tensorflow" ->
            IF opt = "no_model" \/ ~LrExists(lr) THEN LrRaise
            ELSE IF IsTfTensor(lr)
                 THEN (IF NumpyItemOk(lr) THEN LrFloat(v) ELSE LrRaise)
                 ELSE LrWarnNone
      [] bk = "torch" ->
            IF opt = "no_model" \/ ~LrExists(lr) THEN LrRaise
            ELSE IF IsTorchTensor(lr)
                 THEN (IF CpuNumpyItemOk(lr) THEN LrFloat(v) ELSE LrRaise)
                 ELSE LrWarnNone
      [] bk = "jax" ->
            IF opt # "no_model" /\ LrExists(lr) /\ NpArrayItemOk(lr)
            THEN LrFloat(v) ELSE LrWarnNone
      [] OTHER -> LrSilentNone

_get_lr(bk, opt, lr, v) ==
    IF opt = "no_model" THEN GetLrHandler(bk, opt, lr, v)
    ELSE IF opt # "keras" THEN LrSilentNone
    ELSE IF ~LrExists(lr) THEN GetLrHandler(bk, opt, lr, v)
    ELSE IF NumpyItemOk(lr) THEN LrFloat(v)
    ELSE GetLrHandler(bk, opt, lr, v)

\* every result _get_lr can give under backend bk, over the optimizers and
\* learning-rate shapes the model can hold
LrOutcomes(bk) ==
    {_get_lr(bk, opt, lr, v) : opt \in OptimizerKinds, lr \in LrShapes, v \in LrValues}

\* wandb.termerror(msg, repeat=False): printed the first time only
Termerror(shown, r) == IF r.termerror THEN shown \cup {UnableMsg} ELSE shown

\* ------------------------------------------------------------- __init__
NoCall == [op |-> "none", arg |-> 0, logs |-> None, lr |-> None,
           raised |-> FALSE, emitted |-> FALSE, record |-> EmptyDict,
           axis_defined |-> FALSE]

LoggerInit ==
    /\ run \in BOOLEAN
    /\ backend \in Backends
    /\ phase = "new"
    /\ logging_batch_wise = None
    /\ log_freq = None
    /\ global_batch = None
    /\ global_step = None
    /\ initial_global_step = None
    /\ defined = <<>>
    /\ termerror_shown = {}
    /\ sink_count = 0
    /\ sink_batch_count = 0
    /\ batch_calls = 0
    /\ last_call = NoCall
    /\ n_calls = 0

\* no function of bbox_utils.py has been called
BBoxIdle ==
    /\ box_args = None
    /\ box_call = None
    /\ det_args = None
    /\ det_call = None
    /\ pv = None

\* no WandbMetricsLogger exists
LoggerIdle ==
    /\ run = TRUE
    /\ backend = "none"
    /\ phase = "new"
    /\ logging_batch_wise = None
    /\ log_freq = None
    /\ global_batch = None
    /\ global_step = None
    /\ initial_global_step = None
    /\ defined = <<>>
    /\ termerror_shown = {}
    /\ sink_count = 0
    /\ sink_batch_count = 0
    /\ batch_calls = 0
    /\ last_call = NoCall
    /\ n_calls = 0

DefineMetric(name, step_metric) == [name |-> name, step_metric |-> step_metric]

\* a constructor that registers both axis pairs whatever the granularity
InitDefinesBoth(batch_wise) ==
    << DefineMetric("batch/batch_step", None),
       DefineMetric("batch/*", Some("batch/batch_step")),
       DefineMetric("epoch/epoch", None),
       DefineMetric("epoch/*", Some("epoch/epoch")) >>

\* lines 94-103
InitDefines(batch_wise) ==
    IF batch_wise
    THEN << DefineMetric("batch/batch_step", None),
            DefineMetric("batch/*", Some("batch/batch_step")) >>
    ELSE << DefineMetric("epoch/epoch", None),
            DefineMetric("epoch/*", Some("epoch/epoch")) >>

\* lines 86-90: "batch" becomes 1; batch-wise iff log_freq is then an int
NormalizedFreq(arg) ==
    IF arg.str = Some("batch") THEN Some(1) ELSE arg.int

\* what a constructor that got past the wandb.run check establishes
InitEstablish(arg, s) ==
    /\ phase' = "ready"
    /\ logging_batch_wise' = Some(NormalizedFreq(arg) # None)
    /\ log_freq' = NormalizedFreq(arg)
    /\ global_batch' = Some(0)
    /\ global_step' = Some(s)
    /\ defined' = defined \o InitDefines(NormalizedFreq(arg) # None)

\* the constructor raised wandb.Error: there is no instance
InitFail ==
    /\ phase' = "failed"
    /\ UNCHANGED <<logging_batch_wise, log_freq, global_batch, global_step, defined>>

\* a constructor that tests wandb.run only after setting itself up
InitChecksRunLast(arg, s) ==
    /\ phase = "new"
    /\ initial_global_step' = Some(s)
    /\ logging_batch_wise' = Some(NormalizedFreq(arg) # None)
    /\ log_freq' = NormalizedFreq(arg)
    /\ global_batch' = Some(0)
    /\ global_step' = Some(s)
    /\ defined' = defined \o InitDefines(NormalizedFreq(arg) # None)
    /\ phase' = IF run THEN "ready" ELSE "failed"
    /\ UNCHANGED <<run, backend, termerror_shown, sink_count, sink_batch_count,
                   batch_calls, last_call, n_calls, bboxVars>>

\* lines 69-103
__init__(arg, s) ==
    /\ phase = "new"
    /\ initial_global_step' = Some(s)
    /\ IF ~run THEN InitFail ELSE InitEstablish(arg, s)
    /\ UNCHANGED <<run, backend, termerror_shown, sink_count, sink_batch_count,
                   batch_calls, last_call, n_calls, bboxVars>>

Construct == \E arg \in LogFreqArgs, s \in 0..MaxInitialStep : __init__(arg, s)

\* the step axis a record with this prefix is charted against was registered
AxisDefined(defs, prefix) ==
    \E i \in DOMAIN defs :
        /\ defs[i].name = IF prefix = "batch" THEN "batch/*" ELSE "epoch/*"
        /\ defs[i].step_metric # None

\* --------------------------------------------------------- on_epoch_end
EpochRecord(epoch, logs, r) ==
    LET l0 == IF logs = None THEN EmptyDict ELSE Prefixed("epoch", Get(logs))
        l1 == Put(l0, <<"epoch", "epoch">>, epoch)
    IN  IF r.res = "float" THEN Put(l1, <<"epoch", "learning_rate">>, Get(r.value))
        ELSE l1

on_epoch_end(epoch, logs, r) ==
    /\ phase = "ready"
    /\ n_calls < MaxCalls
    /\ n_calls' = n_calls + 1
    /\ termerror_shown' = Termerror(termerror_shown, r)
    /\ IF r.res = "raise"
       THEN /\ last_call' = [op |-> "on_epoch_end", arg |-> epoch, logs |-> logs,
                             lr |-> Some(r), raised |-> TRUE, emitted |-> FALSE,
                             record |-> EmptyDict, axis_defined |-> FALSE]
            /\ UNCHANGED sink_count
       ELSE /\ last_call' = [op |-> "on_epoch_end", arg |-> epoch, logs |-> logs,
                             lr |-> Some(r), raised |-> FALSE, emitted |-> TRUE,
                             record |-> EpochRecord(epoch, logs, r),
                             axis_defined |-> AxisDefined(defined, "epoch")]
            /\ sink_count' = sink_count + 1
    /\ UNCHANGED <<run, backend, phase, logging_batch_wise, log_freq, global_batch,
                   global_step, initial_global_step, defined, sink_batch_count,
                   batch_calls, bboxVars>>

OnEpochEnd ==
    \E epoch \in 0..MaxEpoch, logs \in LogsArgs, r \in LrOutcomes(backend) :
        on_epoch_end(epoch, logs, r)

\* --------------------------------------------------------- on_batch_end
\* line 144: a falsy logs (None or {}) gives {}
BatchRecord(logs, gb, r) ==
    LET l0 == IF logs = None \/ Get(logs) = EmptyDict THEN EmptyDict
              ELSE Prefixed("batch", Get(logs))
        l1 == Put(l0, <<"batch", "batch_step">>, gb)
    IN  IF r.res = "float" THEN Put(l1, <<"batch", "learning_rate">>, Get(r.value))
        ELSE l1

\* line 142
StepAfterBatch(gs) == gs + 1

\* line 153
BatchAfterEmitOne(gb, n) == gb + 1
BatchAfterEmit(gb, n) == gb + n

\* line 143
BatchGate(batch) == Get(logging_batch_wise) /\ batch % Get(log_freq) = 0

on_batch_end(op, batch, logs, r) ==
    /\ phase = "ready"
    /\ n_calls < MaxCalls
    /\ n_calls' = n_calls + 1
    /\ batch_calls' = batch_calls + 1
    /\ global_step' = Some(StepAfterBatch(Get(global_step)))
    /\ IF ~BatchGate(batch)
       THEN /\ last_call' = [op |-> op, arg |-> batch, logs |-> logs,
                             lr |-> None, raised |-> FALSE, emitted |-> FALSE,
                             record |-> EmptyDict, axis_defined |-> FALSE]
            /\ UNCHANGED <<termerror_shown, sink_count, sink_batch_count, global_batch>>
       ELSE /\ termerror_shown' = Termerror(termerror_shown, r)
            /\ IF r.res = "raise"
               THEN /\ last_call' = [op |-> op, arg |-> batch, logs |-> logs,
                                     lr |-> Some(r), raised |-> TRUE, emitted |-> FALSE,
                                     record |-> EmptyDict, axis_defined |-> FALSE]
                    /\ UNCHANGED <<sink_count, sink_batch_count, global_batch>>
               ELSE /\ last_call' = [op |-> op, arg |-> batch, logs |-> logs,
                                     lr |-> Some(r), raised |-> FALSE, emitted |-> TRUE,
                                     record |-> BatchRecord(logs, Get(global_batch), r),
                                     axis_defined |-> AxisDefined(defined, "batch")]
                    /\ sink_count' = sink_count + 1
                    /\ sink_batch_count' = sink_batch_count + 1
                    /\ global_batch' = Some(BatchAfterEmit(Get(global_batch), Get(log_freq)))
    /\ UNCHANGED <<run, backend, phase, logging_batch_wise, log_freq,
                   initial_global_step, defined, bboxVars>>

OnBatchEnd ==
    \E batch \in 0..MaxBatch, logs \in LogsArgs, r \in LrOutcomes(backend) :
        on_batch_end("on_batch_end", batch, logs, r)

\* lines 155-158: on_batch_end(batch, logs if logs else {})
on_train_batch_end(batch, logs, r) ==
    on_batch_end("on_train_batch_end", batch,
                 IF logs = None \/ Get(logs) = EmptyDict THEN Some(EmptyDict) ELSE logs, r)

OnTrainBatchEnd ==
    \E batch \in 0..MaxBatch, logs \in LogsArgs, r \in LrOutcomes(backend) :
        on_train_batch_end(batch, logs, r)

LoggerNext == Construct \/ OnEpochEnd \/ OnBatchEnd \/ OnTrainBatchEnd


Init == LoggerInit /\ BBoxIdle
Next == LoggerNext
Spec == Init /\ [][Next]_vars

\* ====================================================== bbox_utils.py
\* ------------------------------------------------- rational arithmetic
RECURSIVE Gcd(_, _)
Gcd(a, b) == IF b = 0 THEN a ELSE Gcd(b, a % b)
Abs(n) == IF n < 0 THEN -n ELSE n
\* the rational n/d in lowest terms with a positive denominator
Rat(n, d) ==
    LET sn == IF d < 0 THEN -n ELSE n
        sd == Abs(d)
        g == Gcd(Abs(sn), sd)
    IN  <<sn \div g, sd \div g>>
RInt(n) == <<n, 1>>
RAdd(p, q) == Rat(p[1] * q[2] + q[1] * p[2], p[2] * q[2])
RSub(p, q) == Rat(p[1] * q[2] - q[1] * p[2], p[2] * q[2])
RMul(p, q) == Rat(p[1] * q[1], p[2] * q[2])
RDiv(p, q) == Rat(p[1] * q[2], p[2] * q[1])
RLess(p, q) == p[1] * q[2] < q[1] * p[2]
\* tensor.clamp_(lo, hi)
RClamp(p, lo, hi) == IF RLess(p, lo) THEN lo ELSE IF RLess(hi, p) THEN hi ELSE p
\* int(x): truncation toward zero
RTrunc(p) == IF p[1] >= 0 THEN p[1] \div p[2] ELSE -((-p[1]) \div p[2])

\* --------------------------- scale_bounding_box_to_original_image_shape
\* ops.xywhn2xyxy(box, h, w), line 23
xywhn2xyxy(box, h, w) ==
    LET half_w == RDiv(box[3], RInt(2))
        half_h == RDiv(box[4], RInt(2))
    IN  << RMul(RInt(w), RSub(box[1], half_w)),
           RMul(RInt(h), RSub(box[2], half_h)),
           RMul(RInt(w), RAdd(box[1], half_w)),
           RMul(RInt(h), RAdd(box[2], half_h)) >>

\* ops.clip_boxes(boxes, shape): x into [0, width], y into [0, height]
clip_boxes(b, shape) ==
    << RClamp(b[1], RInt(0), RInt(shape[2])),
       RClamp(b[2], RInt(0), RInt(shape[1])),
       RClamp(b[3], RInt(0), RInt(shape[2])),
       RClamp(b[4], RInt(0), RInt(shape[1])) >>

\* a rescaling that multiplies by the gain instead of dividing by it
scale_boxes_times_gain(img1_shape, b, img0_shape, ratio_pad) ==
    LET gain == ratio_pad[1][1]
        pad == ratio_pad[2]
    IN  clip_boxes(<< RMul(RSub(b[1], pad[1]), gain),
                      RMul(RSub(b[2], pad[2]), gain),
                      RMul(RSub(b[3], pad[1]), gain),
                      RMul(RSub(b[4], pad[2]), gain) >>, img0_shape)

\* ops.scale_boxes(img1_shape, boxes, img0_shape, ratio_pad), line 25, with
\* the ratio_pad every ultralytics batch carries: gain = ratio_pad[0][0],
\* pad = ratio_pad[1]; subtract the padding, divide by the gain, clip.
scale_boxes(img1_shape, b, img0_shape, ratio_pad) ==
    LET gain == ratio_pad[1][1]
        pad == ratio_pad[2]
    IN  clip_boxes(<< RDiv(RSub(b[1], pad[1]), gain),
                      RDiv(RSub(b[2], pad[2]), gain),
                      RDiv(RSub(b[3], pad[1]), gain),
                      RDiv(RSub(b[4], pad[2]), gain) >>, img0_shape)

\* ops.xyxy2xywh(box), line 27
xyxy2xywh(b) ==
    << RDiv(RAdd(b[1], b[3]), RInt(2)),
       RDiv(RAdd(b[2], b[4]), RInt(2)),
       RSub(b[3], b[1]),
       RSub(b[4], b[2]) >>

\* lines 9-32
scale_bounding_box_to_original_image_shape(box, resized_image_shape, original_image_shape, ratio_pad) ==
    LET resized_image_height == resized_image_shape[1]
        resized_image_width == resized_image_shape[2]
        b1 == xywhn2xyxy(box, resized_image_height, resized_image_width)
        b2 == scale_boxes(resized_image_shape, b1, original_image_shape, ratio_pad)
    IN  xyxy2xywh(b2)

\* lines 63-74: the annotation record of one ground-truth box
Annotation(box, class_id, label) ==
    [ position |-> [ middle |-> <<RTrunc(box[1]), RTrunc(box[2])>>,
                     width |-> RTrunc(box[3]),
                     height |-> RTrunc(box[4]) ],
      domain |-> "pixel",
      class_id |-> class_id,
      box_caption |-> label ]

\* ------------------------------------------ inputs of the box mapping
\* normalized centre/width/height values, in tenths
CentreTenths == {1, 5, 9}
SizeTenths == {0, 2, 4, 10}
NormBoxes ==
    { << <<cx, 10>>, <<cy, 10>>, <<w, 10>>, <<h, 10>> >> :
        cx \in CentreTenths, cy \in CentreTenths, w \in SizeTenths, h \in SizeTenths }
\* (height, width)
ResizedShapes == {<<640, 640>>, <<480, 640>>}
OriginalShapes == {<<480, 480>>, <<720, 1280>>}
\* ((ratio_h, ratio_w), (pad_x, pad_y))
Gains == {<<3, 4>>, <<4, 3>>, <<1, 2>>}
Pads == {<<0, 0>>, <<0, 80>>}
RatioPads == { << <<g, g>>, <<RInt(p[1]), RInt(p[2])>> >> : g \in Gains, p \in Pads }

BoxArgs ==
    { [ box |-> box, resized_image_shape |-> rs, original_image_shape |-> os,
        ratio_pad |-> rp ] :
        box \in NormBoxes, rs \in ResizedShapes, os \in OriginalShapes,
        rp \in RatioPads }

\* one ground-truth box taken through lines 60-74
BuildAnnotation ==
    /\ box_call = None
    /\ box_call' = Some(Annotation(
                        scale_bounding_box_to_original_image_shape(
                            Get(box_args).box, Get(box_args).resized_image_shape,
                            Get(box_args).original_image_shape,
                            Get(box_args).ratio_pad), 0, "cat").position)
    /\ UNCHANGED <<loggerVars, box_args, det_args, det_call, pv>>

BoxInit ==
    /\ LoggerIdle
    /\ box_args \in {Some(a) : a \in BoxArgs}
    /\ box_call = None
    /\ det_args = None
    /\ det_call = None
    /\ pv = None
BoxNext == BuildAnnotation
SpecBox == BoxInit /\ [][BoxNext]_vars

\* ---------------------------------------------- get_mean_confidence_map
Range(f) == {f[x] : x \in DOMAIN f}
Min(a, b) == IF a < b THEN a ELSE b

RECURSIVE RSum(_)
\* sum(confidence_list)
RSum(list) == IF list = <<>> THEN RInt(0) ELSE RAdd(Head(list), RSum(Tail(list)))

\* an aggregation that forgets to divide the sum by the count
MeanOfSumOnly(confidence_list) ==
    IF Len(confidence_list) > 0 THEN RSum(confidence_list) ELSE RInt(0)

\* lines 98-101
MeanOf(confidence_list) ==
    IF Len(confidence_list) > 0
    THEN RDiv(RSum(confidence_list), RInt(Len(confidence_list)))
    ELSE RInt(0)

RECURSIVE CollectSkipUnknown(_, _, _, _, _)
\* a loop that drops a detection whose class id is not in the mapping
CollectSkipUnknown(cm, classes, confidence, class_id_to_label, i) ==
    IF i > Min(Len(classes), Len(confidence)) THEN [err |-> None, lists |-> cm]
    ELSE IF classes[i] \notin DOMAIN class_id_to_label
    THEN CollectSkipUnknown(cm, classes, confidence, class_id_to_label, i + 1)
    ELSE CollectSkipUnknown(
             [cm EXCEPT ![class_id_to_label[classes[i]]] = Append(@, confidence[i])],
             classes, confidence, class_id_to_label, i + 1)

RECURSIVE CollectFrom(_, _, _, _, _)
\* lines 95-96, from the i-th pair of zip(classes, confidence) on
CollectFrom(cm, classes, confidence, class_id_to_label, i) ==
    IF i > Min(Len(classes), Len(confidence)) THEN [err |-> None, lists |-> cm]
    ELSE IF classes[i] \notin DOMAIN class_id_to_label
    THEN [err |-> Some("KeyError"), lists |-> cm]
    ELSE CollectFrom(
             [cm EXCEPT ![class_id_to_label[classes[i]]] = Append(@, confidence[i])],
             classes, confidence, class_id_to_label, i + 1)

\* lines 94-96
Collect(cm, classes, confidence, class_id_to_label, i) ==
    CollectFrom(cm, classes, confidence, class_id_to_label, i)

\* lines 91-102; map is None when the call raised
get_mean_confidence_map(classes, confidence, class_id_to_label) ==
    LET confidence_map == [v \in Range(class_id_to_label) |-> <<>>]
        c == Collect(confidence_map, classes, confidence, class_id_to_label, 1)
    IN  IF c.err # None THEN [err |-> c.err, map |-> None]
        ELSE [err |-> None,
              map |-> Some([label \in DOMAIN c.lists |-> MeanOf(c.lists[label])])]

\* --------------------------------------------------- plot_predictions
\* lines 116-130
BoxData(classes, confidence, class_id_to_label) ==
    [idx \in 1..Len(classes) |->
        [ class_id |-> classes[idx],
          box_caption |-> class_id_to_label[classes[idx]],
          scores |-> [confidence |-> confidence[idx]] ]]

\* lines 105-141; result.boxes gives cls and conf of one length, result.names
\* the class map; table is Optional.  mcm_err is what the call of
\* get_mean_confidence_map raised (None when it returned); line 126 looks
\* each class id up again.
plot_predictions(result, table) ==
    LET class_id_to_label == result.names
        m == get_mean_confidence_map(result.cls, result.conf, class_id_to_label)
        failed(e) == [err |-> e, mcm_err |-> m.err, table |-> None,
                      predictions |-> None, mean_confidence_map |-> None]
    IN  IF m.err # None THEN failed(m.err)
        ELSE IF \E idx \in DOMAIN result.cls : result.cls[idx] \notin DOMAIN class_id_to_label
        THEN failed(Some("KeyError"))
        ELSE LET box_data == BoxData(result.cls, result.conf, class_id_to_label)
                 predictions == [box_data |-> box_data,
                                 class_labels |-> class_id_to_label]
             IN  IF table # None
                 THEN [err |-> None, mcm_err |-> None,
                       table |-> Some(Append(Get(table),
                                             <<predictions, Len(box_data), Get(m.map)>>)),
                       predictions |-> None, mean_confidence_map |-> None]
                 ELSE [err |-> None, mcm_err |-> None, table |-> None,
                       predictions |-> Some(predictions),
                       mean_confidence_map |-> m.map]

\* ------------------------------------- inputs of the aggregation calls
ClassIds == 0..MaxClassId
Labels == {"cat", "dog"}
\* the mappings over the ids below MaxClassId; MaxClassId is never a key
ClassMaps == UNION {[D -> Labels] : D \in SUBSET (0..(MaxClassId - 1))}
ConfValues == {<<4, 10>>, <<6, 10>>, <<9, 10>>}
SeqsUpTo(S, n) == UNION {[1..k -> S] : k \in 0..n}

DetArgs ==
    { [classes |-> cs, confidence |-> cf, class_id_to_label |-> m] :
        cs \in SeqsUpTo(ClassIds, MaxDet), cf \in SeqsUpTo(ConfValues, MaxDet),
        m \in ClassMaps }

CallGetMeanConfidenceMap ==
    /\ det_call = None
    /\ det_call' = Some([fn |-> "get_mean_confidence_map",
                         out |-> get_mean_confidence_map(
                                     Get(det_args).classes, Get(det_args).confidence,
                                     Get(det_args).class_id_to_label)])
    /\ UNCHANGED <<loggerVars, box_args, box_call, det_args, pv>>

CallPlotPredictions ==
    /\ det_call = None
    /\ Len(Get(det_args).classes) = Len(Get(det_args).confidence)
    /\ \E table \in {None, Some(<<>>)} :
        det_call' = Some([fn |-> "plot_predictions",
                          out |-> plot_predictions(
                                      [cls |-> Get(det_args).classes,
                                       conf |-> Get(det_args).confidence,
                                       names |-> Get(det_args).class_id_to_label],
                                      table)])
    /\ UNCHANGED <<loggerVars, box_args, box_call, det_args, pv>>

ConfidenceInit ==
    /\ LoggerIdle
    /\ box_args = None
    /\ box_call = None
    /\ det_args \in {Some(a) : a \in DetArgs}
    /\ det_call = None
    /\ pv = None
ConfidenceNext == CallGetMeanConfidenceMap \/ CallPlotPredictions
SpecConfidence == ConfidenceInit /\ [][ConfidenceNext]_vars

\* --------------------------------------- get_ground_truth_annotations
\* line 40: {v: k for k, v in class_name_map.items()}; of two ids with one
\* label the later (larger) id stays
Reverse(class_name_map) ==
    [v \in Range(class_name_map) |->
        CHOOSE k \in DOMAIN class_name_map :
            /\ class_name_map[k] = v
            /\ \A j \in DOMAIN class_name_map : class_name_map[j] = v => j <= k]

GtRaise(e) == [err |-> Some(e), warn |-> FALSE, data |-> None]

\* lines 35-76.  frame.batch tells how the batch entry of the frame is
\* formed: "ok", "missing_key" (batch lacks a key: the subscript raises
\* KeyError at line 36) or "none_entry" (batch["ori_shape"] is None: the
\* subscript raises TypeError at line 50).  frame.cls holds the class ids
\* of the frame's ground-truth boxes, frame.bboxes their normalized boxes.
get_ground_truth_annotations(frame, class_name_map) ==
    IF frame.batch = "missing_key" THEN GtRaise("KeyError")
    ELSE IF Len(frame.bboxes) = 0
    THEN [err |-> None, warn |-> TRUE, data |-> None]
    ELSE IF DOMAIN class_name_map # {}
            /\ \E i \in DOMAIN frame.cls : frame.cls[i] \notin DOMAIN class_name_map
    THEN GtRaise("KeyError")
    ELSE IF frame.batch = "none_entry" THEN GtRaise("TypeError")
    ELSE IF DOMAIN class_name_map = {} THEN GtRaise("KeyError")
    ELSE [err |-> None, warn |-> FALSE,
          data |-> Some(
              [i \in DOMAIN frame.bboxes |->
                  Annotation(
                      scale_bounding_box_to_original_image_shape(
                          frame.bboxes[i], frame.resized_shape, frame.ori_shape,
                          frame.ratio_pad),
                      Reverse(class_name_map)[class_name_map[frame.cls[i]]],
                      class_name_map[frame.cls[i]])])]

\* lines 161-170: wandb.Image validates its boxes and raises TypeError
\* ("Boxes must be a list") when box_data is None
WandbImage(ground_truth_data, class_label_map, prediction_box_data) ==
    IF ground_truth_data = None
    THEN [err |-> Some("TypeError"), image |-> None]
    ELSE [err |-> None,
          image |-> Some([ground_truth |-> Get(ground_truth_data),
                          predictions |-> prediction_box_data])]

\* an except clause that swallows every exception
CaughtAnything(e) == TRUE

\* line 176: except TypeError
Caught(e) == e = "TypeError"

\* lines 171-174
TableRow(epoch, data_idx, wandb_image, mean_confidence_map) ==
    IF epoch = None THEN <<data_idx, wandb_image, mean_confidence_map>>
    ELSE <<Get(epoch), data_idx, wandb_image, mean_confidence_map>>

\* ------------------------------------------ plot_validation_results
\* the class names of the predictor and the class_label_map of the call
PVClassMap == [i \in 0..(MaxClassId - 1) |-> IF i = 0 THEN "cat" ELSE "dog"]
\* the detections the predictor returns for a frame
PVDetections == {<<>>, <<0>>, <<1>>, <<MaxClassId>>, <<0, MaxClassId>>}
PVConf(cs) == [i \in DOMAIN cs |-> <<6, 10>>]
\* the ground-truth labels of a frame
PVGroundTruth == {<<>>, <<0>>, <<1>>, <<MaxClassId>>}
PVBox == << <<5, 10>>, <<5, 10>>, <<2, 10>>, <<4, 10>> >>
PVFrames ==
    { [ cls |-> cs, conf |-> PVConf(cs), batch |-> b, gt |-> g ] :
        cs \in PVDetections, b \in {"ok", "missing_key", "none_entry"},
        g \in PVGroundTruth }
GtFrame(f) ==
    [ batch |-> f.batch, cls |-> f.gt, bboxes |-> [i \in DOMAIN f.gt |-> PVBox],
      resized_shape |-> <<640, 640>>, ori_shape |-> <<480, 480>>,
      ratio_pad |-> << << <<4, 3>>, <<4, 3>> >>, <<RInt(0), RInt(0)>> >> ]

\* line 151 and the call: the loop has not fetched a batch yet
PVStart ==
    /\ pv = None
    /\ \E n \in 0..MaxBatches, epoch \in {None, Some(0)} :
        pv' = Some([ status |-> "running", error |-> None, epoch |-> epoch,
                     class_label_map |-> PVClassMap, n_batches |-> n,
                     batch_idx |-> 0, batch_size |-> None, img_idx |-> 0,
                     data_idx |-> 0, table |-> <<>>, termwarn |-> 0,
                     skipped |-> 0, last_frame |-> None ])
    /\ UNCHANGED <<loggerVars, box_args, box_call, det_args, det_call>>

\* line 152: the dataloader yields its next batch, or is exhausted
PVNextBatch ==
    /\ pv # None
    /\ Get(pv).status = "running"
    /\ Get(pv).batch_size = None
    /\ IF Get(pv).batch_idx >= Get(pv).n_batches
       THEN pv' = Some([Get(pv) EXCEPT !.status = "returned"])
       ELSE \E size \in 0..MaxFrames :
              pv' = Some([Get(pv) EXCEPT !.batch_size = Some(size), !.img_idx = 0])
    /\ UNCHANGED <<loggerVars, box_args, box_call, det_args, det_call>>

\* what one pass of the loop body, lines 154-177, does with frame f
FrameStep(p, f) ==
    LET pp == plot_predictions([cls |-> f.cls, conf |-> f.conf,
                                names |-> p.class_label_map], None)
        gt == get_ground_truth_annotations(GtFrame(f), p.class_label_map)
        img == WandbImage(gt.data, p.class_label_map, pp.predictions)
        warned == IF pp.err = None /\ gt.warn THEN 1 ELSE 0
        seen(outcome, row) ==
            Some([frame |-> f, pp_err |-> pp.err, mcm_err |-> pp.mcm_err,
                  map |-> pp.mean_confidence_map,
                  gt_err |-> IF pp.err = None THEN gt.err ELSE None,
                  outcome |-> outcome, row |-> row])
    IN  IF pp.err # None
        THEN [p EXCEPT !.status = "raised", !.error = pp.err,
                       !.last_frame = seen("raised", None)]
        ELSE IF gt.err # None /\ ~Caught(Get(gt.err))
        THEN [p EXCEPT !.status = "raised", !.error = gt.err,
                       !.last_frame = seen("raised", None)]
        ELSE IF gt.err # None
        THEN [p EXCEPT !.img_idx = @ + 1, !.skipped = @ + 1,
                       !.last_frame = seen("skipped", None)]
        ELSE IF img.err # None /\ ~Caught(Get(img.err))
        THEN [p EXCEPT !.status = "raised", !.error = img.err,
                       !.termwarn = @ + warned,
                       !.last_frame = seen("raised", None)]
        ELSE IF img.err # None
        THEN [p EXCEPT !.img_idx = @ + 1, !.skipped = @ + 1,
                       !.termwarn = @ + warned,
                       !.last_frame = seen("skipped", None)]
        ELSE LET row == TableRow(p.epoch, p.data_idx, Get(img.image),
                                 Get(pp.mean_confidence_map))
             IN  [p EXCEPT !.img_idx = @ + 1, !.data_idx = @ + 1,
                           !.table = Append(@, row),
                           !.last_frame = seen("added", Some(row))]

\* lines 153-177: the next frame of the current batch
PVFrame ==
    /\ pv # None
    /\ Get(pv).status = "running"
    /\ Get(pv).batch_size # None
    /\ Get(pv).img_idx < Get(Get(pv).batch_size)
    /\ \E f \in PVFrames : pv' = Some(FrameStep(Get(pv), f))
    /\ UNCHANGED <<loggerVars, box_args, box_call, det_args, det_call>>

\* lines 178-180: after the frames of a batch; batch_idx + 1 == 1 holds for
\* the first batch, so the loop is left there
PVEndBatch ==
    /\ pv # None
    /\ Get(pv).status = "running"
    /\ Get(pv).batch_size # None
    /\ Get(pv).img_idx >= Get(Get(pv).batch_size)
    /\ IF Get(pv).batch_idx + 1 = 1
       THEN pv' = Some([Get(pv) EXCEPT !.status = "returned"])
       ELSE pv' = Some([Get(pv) EXCEPT !.batch_idx = @ + 1, !.batch_size = None])
    /\ UNCHANGED <<loggerVars, box_args, box_call, det_args, det_call>>

ValidationInit == LoggerIdle /\ BBoxIdle
ValidationNext == PVStart \/ PVNextBatch \/ PVFrame \/ PVEndBatch
SpecValidation == ValidationInit /\ [][ValidationNext]_vars

\* ================================================= WandbMetricsLogger claims
IsBatchCall == last_call.op \in {"on_batch_end", "on_train_batch_end"}
IsEpochCall == last_call.op = "on_epoch_end"
BatchStepKey == <<"batch", "batch_step">>
EpochKey == <<"epoch", "epoch">>
EpochLrKey == <<"epoch", "learning_rate">>
BatchLrKey == <<"batch", "learning_rate">>

\* C1: a call on_batch_end(b, logs) hands a batch record to the sink if and
\* only if the logger is batch-wise with frequency N and b % N = 0 (in epoch
\* granularity it never does).
C1_BatchEmitIff ==
    IsBatchCall =>
        (last_call.emitted <=>
            (log_freq # None /\ last_call.arg % Get(log_freq) = 0))

\* C2: global_step is the initial step plus the number of on_batch_end calls
\* (emitting or not), global_batch is N times the number of batch records
\* emitted (on_epoch_end changes neither), and the k-th emitted batch record
\* carries batch/batch_step = k*N, the value of global_batch before its
\* increment.
C2_Counters ==
    phase = "ready" =>
        /\ Get(global_step) = Get(initial_global_step) + batch_calls
        /\ Get(global_batch) =
              (IF log_freq = None THEN 0 ELSE Get(log_freq) * sink_batch_count)
        /\ (IsBatchCall /\ last_call.emitted) =>
              /\ sink_batch_count >= 1
              /\ last_call.record[BatchStepKey] =
                    (sink_batch_count - 1) * Get(log_freq)
              /\ last_call.record[BatchStepKey] =
                    Get(global_batch) - Get(log_freq)

C2_Witness ==
    /\ IsBatchCall /\ last_call.emitted
    /\ log_freq = Some(2)
    /\ sink_batch_count = 2
    /\ last_call.record[BatchStepKey] = 2
    /\ Get(global_batch) = 4
    /\ Get(global_step) = Get(initial_global_step) + 2

\* C3: on_epoch_end(e, M) always emits exactly one record, holding exactly
\* epoch/<k> = M[k] for every key k of M, epoch/epoch = e, and
\* epoch/learning_rate only if the learning rate was resolved.
C3_EpochRecordExact ==
    IsEpochCall =>
        LET M == IF last_call.logs = None THEN EmptyDict ELSE Get(last_call.logs)
            resolved == Get(last_call.lr).res = "float"
            rec == last_call.record
        IN  /\ last_call.emitted
            /\ DOMAIN rec = {<<"epoch", k>> : k \in DOMAIN M} \cup {EpochKey}
                              \cup (IF resolved THEN {EpochLrKey} ELSE {})
            /\ \A k \in DOMAIN M : rec[<<"epoch", k>>] = M[k]
            /\ rec[EpochKey] = last_call.arg

\* C4: learning-rate resolution never raises: it returns a float, or None
\* after surfacing the "Unable to log learning rate." warning, and in the
\* None case the record is still emitted, without the learning_rate key.
C4_GetLrNeverRaises ==
    (last_call.op # "none" /\ last_call.lr # None) =>
        LET r == Get(last_call.lr)
        IN  /\ r.res # "raise"
            /\ ~last_call.raised
            /\ r.res = "None" =>
                  /\ r.termerror
                  /\ UnableMsg \in termerror_shown
                  /\ last_call.emitted
                  /\ EpochLrKey \notin DOMAIN last_call.record
                  /\ BatchLrKey \notin DOMAIN last_call.record

\* the number of define_metric(name, step_metric=step_metric) calls made
CountDefined(name, step_metric) ==
    Cardinality({i \in DOMAIN defined : defined[i] = DefineMetric(name, step_metric)})

\* C5 (as claimed): initialization registers both step axes, batch/* against
\* batch/batch_step and epoch/* against epoch/epoch, each exactly once, so
\* every record emitted later is logged against an axis defined then.
C5_BothAxesDefined ==
    phase = "ready" =>
        /\ CountDefined("batch/*", Some("batch/batch_step")) = 1
        /\ CountDefined("epoch/*", Some("epoch/epoch")) = 1
        /\ last_call.emitted => last_call.axis_defined

\* C5 (amended): initialization registers exactly one axis pair, the one of
\* the configured granularity, each call made once; a batch record is always
\* logged against the registered batch axis, and an epoch record is logged
\* against a registered axis exactly when the logger is not batch-wise.
C5_AxisOfGranularity ==
    /\ phase # "ready" => defined = <<>>
    /\ phase = "ready" =>
        /\ Len(defined) = 2
        /\ IF Get(logging_batch_wise)
           THEN /\ CountDefined("batch/batch_step", None) = 1
                /\ CountDefined("batch/*", Some("batch/batch_step")) = 1
           ELSE /\ CountDefined("epoch/epoch", None) = 1
                /\ CountDefined("epoch/*", Some("epoch/epoch")) = 1
        /\ (IsBatchCall /\ last_call.emitted) => last_call.axis_defined
        /\ (IsEpochCall /\ last_call.emitted) =>
              (last_call.axis_defined <=> ~Get(logging_batch_wise))

C5_Witness ==
    /\ phase = "ready"
    /\ Get(logging_batch_wise)
    /\ IsEpochCall /\ last_call.emitted
    /\ ~last_call.axis_defined
    /\ EpochKey \in DOMAIN last_call.record

\* C6: constructing the logger while wandb.run is None fails at once, and on
\* that failure no step axis is registered, no counter is established and
\* no record is ever emitted.
C6_NoSessionFails ==
    /\ (phase # "new" /\ ~run) => phase = "failed"
    /\ phase = "failed" =>
        /\ ~run
        /\ defined = <<>>
        /\ global_step = None /\ global_batch = None
        /\ logging_batch_wise = None /\ log_freq = None
        /\ sink_count = 0 /\ n_calls = 0 /\ last_call = NoCall

C6_Witness == phase = "failed" /\ ~run /\ initial_global_step # None

\* ============================================================ bbox claims
RECURSIVE SumTenths(_, _)
\* the sum, in tenths, of the confidences at the indices idx
SumTenths(confidence, idx) ==
    IF idx = {} THEN 0
    ELSE LET i == CHOOSE x \in idx : TRUE
         IN  confidence[i][1] + SumTenths(confidence, idx \ {i})

\* C7: for equal-length classes and confidence whose class ids are all keys
\* of class_id_to_label, get_mean_confidence_map returns a mapping whose keys
\* are exactly the labels of class_id_to_label, each valued with the
\* arithmetic mean of the confidences of the detections of that label, and
\* exactly 0 for a label with no detection.
C7_MeanConfidenceMap ==
    (det_call # None /\ Get(det_call).fn = "get_mean_confidence_map") =>
        LET a == Get(det_args)
            out == Get(det_call).out
        IN  (/\ Len(a.classes) = Len(a.confidence)
             /\ \A i \in DOMAIN a.classes : a.classes[i] \in DOMAIN a.class_id_to_label)
            =>
            /\ out.err = None
            /\ out.map # None
            /\ DOMAIN Get(out.map) = Range(a.class_id_to_label)
            /\ \A label \in Range(a.class_id_to_label) :
                  LET idx == {i \in DOMAIN a.classes :
                                  a.class_id_to_label[a.classes[i]] = label}
                      v == Get(out.map)[label]
                  IN  IF idx = {} THEN v = <<0, 1>>
                      ELSE /\ v[2] > 0
                           /\ v[1] * 10 * Cardinality(idx)
                                = v[2] * SumTenths(a.confidence, idx)

C7_Witness ==
    /\ det_call # None
    /\ Get(det_call).fn = "get_mean_confidence_map"
    /\ Get(det_args).classes = <<0, 0>>
    /\ Get(det_args).confidence = << <<4, 10>>, <<6, 10>> >>
    /\ Get(det_args).class_id_to_label = [i \in {0, 1} |-> IF i = 0 THEN "cat" ELSE "dog"]
    /\ Get(det_call).out.map =
          Some([l \in {"cat", "dog"} |-> IF l = "cat" THEN <<1, 2>> ELSE <<0, 1>>])

HasUnknownClass(f, class_map) ==
    \E i \in DOMAIN f.cls : f.cls[i] \notin DOMAIN class_map

\* C8: a detection whose class id is not a key of class_id_to_label makes
\* get_mean_confidence_map fail with KeyError and return no map; the error
\* leaves plot_predictions and plot_validation_results too, and the frame
\* adds no row.
C8_UnknownClassPropagates ==
    (pv # None /\ Get(pv).last_frame # None) =>
        LET p == Get(pv)
            lf == Get(p.last_frame)
        IN  HasUnknownClass(lf.frame, p.class_label_map) =>
                /\ lf.mcm_err = Some("KeyError")
                /\ lf.map = None
                /\ lf.pp_err = Some("KeyError")
                /\ p.status = "raised"
                /\ p.error = Some("KeyError")
                /\ lf.row = None
                /\ Len(p.table) = p.data_idx

C8_Witness ==
    /\ pv # None
    /\ Get(pv).last_frame # None
    /\ Get(Get(pv).last_frame).frame.cls = <<0, MaxClassId>>
    /\ Get(Get(pv).last_frame).frame.batch = "ok"
    /\ Get(pv).status = "raised"
    /\ Len(Get(pv).table) = 1

\* the frame's ground-truth annotations could not be built, or are empty
GtFailsOrEmpty(f, class_map) ==
    \/ f.batch # "ok"
    \/ f.gt = <<>>
    \/ \E i \in DOMAIN f.gt : f.gt[i] \notin DOMAIN class_map

\* C9 (as claimed): a failure while building one frame's ground-truth
\* annotations never aborts the pass: the frame with no ground-truth box and
\* the frame whose annotation processing fails (malformed batch entry, label
\* missing from the class map) are skipped without a row, and the pass goes
\* on with the remaining frames.
C9_AnnotationFailureNeverAborts ==
    (pv # None /\ Get(pv).last_frame # None) =>
        LET p == Get(pv)
            lf == Get(p.last_frame)
        IN  (lf.pp_err = None) =>
                /\ p.status # "raised"
                /\ GtFailsOrEmpty(lf.frame, p.class_label_map) =>
                      (lf.outcome = "skipped" /\ lf.row = None)

\* C9 (amended): only the first batch of the dataloader is processed.  There,
\* a frame with no ground-truth box gives a warning and no row, and a
\* failure raising TypeError (a batch entry that is None) is caught: that
\* frame alone is skipped and the next frame of the batch is processed.  A
\* failure raising KeyError (a batch lacking a key, a label missing from the
\* class map) is not caught: it ends the pass and no table is returned.
C9_OnlyTypeErrorIsSkipped ==
    pv # None =>
        LET p == Get(pv)
        IN  /\ p.batch_idx = 0
            /\ p.status # "raised" =>
                  /\ Len(p.table) = p.data_idx
                  /\ p.img_idx = p.data_idx + p.skipped
            /\ p.status = "returned" =>
                  IF p.batch_size = None THEN p.n_batches = 0 /\ p.img_idx = 0
                  ELSE p.img_idx = Get(p.batch_size)
            /\ (p.last_frame # None /\ Get(p.last_frame).pp_err = None) =>
                  LET lf == Get(p.last_frame)
                      f == lf.frame
                  IN  IF f.batch = "missing_key"
                      THEN p.status = "raised" /\ p.error = Some("KeyError")
                      ELSE IF f.gt = <<>>
                      THEN lf.outcome = "skipped" /\ p.termwarn >= 1
                           /\ p.status # "raised"
                      ELSE IF \E i \in DOMAIN f.gt : f.gt[i] \notin DOMAIN p.class_label_map
                      THEN p.status = "raised" /\ p.error = Some("KeyError")
                      ELSE IF f.batch = "none_entry"
                      THEN lf.outcome = "skipped" /\ p.status # "raised"
                      ELSE /\ lf.outcome = "added"
                           /\ p.status # "raised"
                           /\ p.table[Len(p.table)] = Get(lf.row)
                           /\ Get(lf.row)[IF p.epoch = None THEN 1 ELSE 2]
                                = p.data_idx - 1

C9_Witness ==
    /\ pv # None
    /\ Get(pv).status = "returned"
    /\ Get(pv).n_batches = 2
    /\ Get(pv).skipped = 1
    /\ Get(pv).termwarn = 1
    /\ Len(Get(pv).table) = 1
    /\ Get(Get(pv).last_frame).outcome = "added"

\* the mapped box, computed in integers over the common denominator 20 * gn:
\* corner numerators, padding removed, divided by the gain gn/gd, clipped
\* to [0, limit], then centre and extent, truncated
ClipNum(n, limit, den) == IF n < 0 THEN 0 ELSE IF n > limit * den THEN limit * den ELSE n
ExpectedCentre(c, e, size, pad, gn, gd, limit) ==
    LET den == 20 * gn
        lo == ClipNum(gd * (size * (2 * c - e) - 20 * pad), limit, den)
        hi == ClipNum(gd * (size * (2 * c + e) - 20 * pad), limit, den)
    IN  (lo + hi) \div (2 * den)
ExpectedExtent(c, e, size, pad, gn, gd, limit) ==
    LET den == 20 * gn
        lo == ClipNum(gd * (size * (2 * c - e) - 20 * pad), limit, den)
        hi == ClipNum(gd * (size * (2 * c + e) - 20 * pad), limit, den)
    IN  (hi - lo) \div den

BoxIsTruncatedPipeline ==
    box_call # None =>
        LET a == Get(box_args)
            pos == Get(box_call)
            gn == a.ratio_pad[1][1][1]
            gd == a.ratio_pad[1][1][2]
            px == a.ratio_pad[2][1][1]
            py == a.ratio_pad[2][2][1]
            W == a.resized_image_shape[2]
            H == a.resized_image_shape[1]
            OW == a.original_image_shape[2]
            OH == a.original_image_shape[1]
        IN  /\ pos.middle[1] = ExpectedCentre(a.box[1][1], a.box[3][1], W, px, gn, gd, OW)
            /\ pos.middle[2] = ExpectedCentre(a.box[2][1], a.box[4][1], H, py, gn, gd, OH)
            /\ pos.width = ExpectedExtent(a.box[1][1], a.box[3][1], W, px, gn, gd, OW)
            /\ pos.height = ExpectedExtent(a.box[2][1], a.box[4][1], H, py, gn, gd, OH)

\* the box (0.5, 0.5, 0.2, 0.4) in a (640, 640) frame, original (480, 480),
\* no padding, with the given ratio
IsExample(g) ==
    /\ box_call # None
    /\ Get(box_args).box = PVBox
    /\ Get(box_args).resized_image_shape = <<640, 640>>
    /\ Get(box_args).original_image_shape = <<480, 480>>
    /\ Get(box_args).ratio_pad = << <<g, g>>, <<RInt(0), RInt(0)>> >>

Near(x, y) == x - y <= 1 /\ y - x <= 1
NearExpectedBox(pos) ==
    /\ Near(pos.middle[1], 240) /\ Near(pos.middle[2], 240)
    /\ Near(pos.width, 96) /\ Near(pos.height, 192)

\* C10 (as claimed): the mapped box is the truncation of the pipeline
\* (corners, un-pad, divide by the ratio, clip, back to centre/extent), and
\* the example box with ratio 0.75 maps to within 1 pixel of
\* (240, 240, 96, 192).
C10_ExampleAtRatioThreeQuarters ==
    /\ BoxIsTruncatedPipeline
    /\ IsExample(<<3, 4>>) => NearExpectedBox(Get(box_call))

\* C10 (amended): the mapped box is the truncation of the pipeline, and the
\* example box maps to within 1 pixel of (240, 240, 96, 192) when the ratio
\* is 640/480 = 4/3 (the ratio divides); with ratio 0.75 it maps to
\* (410, 368, 138, 224).
C10_ExampleAtRatioFourThirds ==
    /\ BoxIsTruncatedPipeline
    /\ IsExample(<<4, 3>>) => NearExpectedBox(Get(box_call))
    /\ IsExample(<<3, 4>>) =>
          Get(box_call) = [middle |-> <<410, 368>>, width |-> 138, height |-> 224]

C10_Witness ==
    /\ IsExample(<<4, 3>>)
    /\ Get(box_call) = [middle |-> <<240, 240>>, width |-> 96, height |-> 192]
====
